---- MODULE Spec2Model ----
(***************************************************************************)
(* Model of SceneManager.cpp: the texture registry, the material registry, *)
(* the transform composer, the shading setters, scene preparation and the  *)
(* per-frame object routines.                                              *)
(*                                                                         *)
(* Numbers: every float of the source is kept in thousandths (1.0f is      *)
(* 1000), so the model works on integers.  A vec3 is a 3-tuple, a vec4 a   *)
(* 4-tuple and a mat4 a 4-tuple of rows.                                   *)
(***************************************************************************)
EXTENDS Integers, Sequences, FiniteSets, TLC

VARIABLES
    m_pShaderManager,   \* "shader" (non-null) or "NULL"
    m_textureIDs,       \* array of TEXTURE_INFO, index 0..TexCapacity-1
    m_loadedTextures,   \* the load counter
    m_objectMaterials,  \* std::vector<OBJECT_MATERIAL>
    glTextures,         \* GL texture objects; the name of the i-th is i
    glActiveUnit,       \* GL: the active texture unit
    glBound,            \* GL: unit -> name bound to GL_TEXTURE_2D (0: none)
    stbiLive,           \* decoded image buffers not yet freed
    uniforms,           \* shader stage: uniform name -> value
    meshLoads,          \* ShapeMeshes: primitive kind -> number of LoadXMesh calls
    lastCall,           \* history: the operation that ran last, its argument and result
    bindAllRan,         \* history: BindGLTextures has run at least once
    pc,                 \* position of the driver (scene specification)
    ip,                 \* index inside the current stage
    frame,              \* number of RenderScene calls started
    prepLog,            \* history: the calls PrepareScene has made, in order
    routineLog,         \* history: object routines entered in the current frame
    drawLog,            \* history: draw calls of the current frame
    firstDraws,         \* history: the draw kinds of the first complete frame
    args                \* composer specification: the arguments of the coming call

vars == << m_pShaderManager, m_textureIDs, m_loadedTextures, m_objectMaterials,
           glTextures, glActiveUnit, glBound, stbiLive, uniforms, meshLoads,
           lastCall, bindAllRan, pc, ip, frame, prepLog, routineLog, drawLog,
           firstDraws, args >>

texVars   == << m_textureIDs, m_loadedTextures >>
glVars    == << glTextures, glActiveUnit, glBound, stbiLive >>
sceneVars == << pc, ip, frame, prepLog, routineLog, drawLog, firstDraws, args >>

----------------------------------------------------------------------------
(* Program constants *)

\* m_textureIDs has 16 elements ("There are up to 16 slots")
TexCapacity == 16

\* m_loadedTextures right after construction (the member's declaration is in
\* SceneManager.h; the constructor does not assign it)
InitialLoadedTextures == 0

NULL == "NULL"

(* Bounds *)
MaxLoads == 3      \* registered textures in the registry specification
MaxGen == 3        \* GL texture names generated in the registry specification
MaxMaterials == 2  \* materials defined in the registry specification

Units == 0 .. (TexCapacity - 1)

\* tags used by the registry specification; NoSuchTag is never registered
Tags == {"floor", "wall"}
NoSuchTag == "nonexistent"

\* colorChannels as stbi_load reports it; 0 stands for a NULL image
Channels == {0, 1, 3, 4}

----------------------------------------------------------------------------
(* Shader stage *)

Vec3Uniforms == {"material.diffuseColor", "material.specularColor",
                 "directionalLight.direction", "directionalLight.ambient",
                 "directionalLight.diffuse", "directionalLight.specular",
                 "spotLight.position", "spotLight.direction", "spotLight.ambient",
                 "spotLight.diffuse", "spotLight.specular"}
                \cup { "pointLights[0].position", "pointLights[0].ambient",
                       "pointLights[0].diffuse", "pointLights[0].specular",
                       "pointLights[1].position", "pointLights[1].ambient",
                       "pointLights[1].diffuse", "pointLights[1].specular",
                       "pointLights[2].position", "pointLights[2].ambient",
                       "pointLights[2].diffuse", "pointLights[2].specular",
                       "pointLights[3].position", "pointLights[3].ambient",
                       "pointLights[3].diffuse", "pointLights[3].specular" }
FloatUniforms == {"material.shininess", "spotLight.constant", "spotLight.linear",
                  "spotLight.quadratic", "spotLight.cutOff", "spotLight.outerCutOff"}
BoolUniforms == {"bUseTexture", "bUseLighting", "directionalLight.bActive",
                 "spotLight.bActive", "pointLights[0].bActive",
                 "pointLights[1].bActive", "pointLights[2].bActive",
                 "pointLights[3].bActive"}
UniformNames == Vec3Uniforms \cup FloatUniforms \cup BoolUniforms
                \cup {"model", "objectColor", "objectTexture", "UVscale"}

ZeroMat4 == << <<0,0,0,0>>, <<0,0,0,0>>, <<0,0,0,0>>, <<0,0,0,0>> >>

\* a uniform that was never written holds zero
InitialUniforms ==
    [n \in UniformNames |->
        CASE n \in Vec3Uniforms -> <<0, 0, 0>>
          [] n \in FloatUniforms -> 0
          [] n \in BoolUniforms -> FALSE
          [] n = "model" -> ZeroMat4
          [] n = "objectColor" -> <<0, 0, 0, 0>>
          [] n = "objectTexture" -> 0
          [] n = "UVscale" -> <<0, 0>>]

----------------------------------------------------------------------------
(* Texture registry *)

NoCall == [op |-> "none", arg |-> "", ret |-> 0]

EmptyTextureInfo == [ID |-> 0, tag |-> ""]

\* the GL texture object CreateGLTexture sets up for an image with ch channels
TextureObject(ch) ==
    [wrapS |-> "GL_REPEAT", wrapT |-> "GL_REPEAT",
     minFilter |-> "GL_LINEAR", magFilter |-> "GL_LINEAR",
     format |-> CASE ch = 3 -> "GL_RGB8" [] ch = 4 -> "GL_RGBA8" [] OTHER -> "none",
     mipmaps |-> ch \in {3, 4}]

\* the registry and the load counter after the stores of lines 113-115.
\* Below TexCapacity they fill the next free entry.  At TexCapacity they
\* write outside the array, which the language leaves undefined: the entry
\* lands in the memory behind the array (kept here under its index) and the
\* counter is incremented, or the store hits the counter itself, which then
\* holds the handle when it is incremented.
RegisterTexture(textureID, tag) ==
    IF m_loadedTextures < TexCapacity
    THEN { [ids |-> [m_textureIDs EXCEPT ![m_loadedTextures] =
                        [ID |-> textureID, tag |-> tag]],
            loaded |-> m_loadedTextures + 1] }
    ELSE { [ids |-> [i \in DOMAIN m_textureIDs \cup {m_loadedTextures} |->
                        IF i = m_loadedTextures
                        THEN [ID |-> textureID, tag |-> tag]
                        ELSE m_textureIDs[i]],
            loaded |-> m_loadedTextures + 1],
           [ids |-> m_textureIDs, loaded |-> textureID + 1] }

\* variant: an image with an unsupported channel count is registered too
CreateGLTextureRegistersAnyImage(tag, ch) ==
    IF ch # 0
    THEN /\ glTextures' = Append(glTextures, TextureObject(ch))
         /\ stbiLive' = stbiLive
         /\ glBound' = [glBound EXCEPT ![glActiveUnit] = 0]
         /\ m_textureIDs' = [m_textureIDs EXCEPT ![m_loadedTextures] =
                                [ID |-> Len(glTextures) + 1, tag |-> tag]]
         /\ m_loadedTextures' = m_loadedTextures + 1
         /\ lastCall' = [op |-> "CreateGLTexture", arg |-> tag, ret |-> ch \in {3, 4}]
         /\ UNCHANGED glActiveUnit
    ELSE /\ lastCall' = [op |-> "CreateGLTexture", arg |-> tag, ret |-> FALSE]
         /\ UNCHANGED << texVars, glVars >>

\* CreateGLTexture(filename, tag) where stbi_load reports ch channels
\* (ch = 0: stbi_load returned NULL)
CreateGLTexture(tag, ch) ==
    IF ch # 0
    THEN LET textureID == Len(glTextures) + 1 IN
         /\ glTextures' = Append(glTextures, TextureObject(ch))
         /\ IF ch \in {3, 4}
            THEN /\ stbiLive' = stbiLive
                 /\ glBound' = [glBound EXCEPT ![glActiveUnit] = 0]
                 /\ \E registered \in RegisterTexture(textureID, tag) :
                        /\ m_textureIDs' = registered.ids
                        /\ m_loadedTextures' = registered.loaded
                 /\ lastCall' = [op |-> "CreateGLTexture", arg |-> tag, ret |-> TRUE]
            ELSE /\ stbiLive' = stbiLive + 1
                 /\ glBound' = [glBound EXCEPT ![glActiveUnit] = textureID]
                 /\ UNCHANGED texVars
                 /\ lastCall' = [op |-> "CreateGLTexture", arg |-> tag, ret |-> FALSE]
         /\ UNCHANGED glActiveUnit
    ELSE /\ lastCall' = [op |-> "CreateGLTexture", arg |-> tag, ret |-> FALSE]
         /\ UNCHANGED << texVars, glVars >>

\* variant: glActiveTexture is left out, so every glBindTexture of the loop
\* lands on the unit that is active
BoundAfterBindAllOnActiveUnit ==
    [u \in Units |-> IF u = glActiveUnit /\ m_loadedTextures > 0
                     THEN m_textureIDs[m_loadedTextures - 1].ID ELSE glBound[u]]

\* the state of GL after the loop of BindGLTextures
BoundAfterBindAll ==
    [u \in Units |-> IF u < m_loadedTextures THEN m_textureIDs[u].ID ELSE glBound[u]]

BindGLTextures ==
    /\ glBound' = BoundAfterBindAll
    /\ glActiveUnit' = IF m_loadedTextures > 0 THEN m_loadedTextures - 1 ELSE glActiveUnit
    /\ bindAllRan' = TRUE
    /\ UNCHANGED << glTextures, stbiLive, texVars >>

\* a texture name that glGenTextures returned and nothing has set up
GeneratedTexture ==
    [wrapS |-> "none", wrapT |-> "none", minFilter |-> "none", magFilter |-> "none",
     format |-> "none", mipmaps |-> FALSE]

\* the loop of DestroyGLTextures from index i on: glGenTextures(1,
\* &m_textureIDs[i].ID) stores a newly generated name in entry i
RECURSIVE DestroyGLTexturesLoop(_, _, _)
DestroyGLTexturesLoop(i, ids, textures) ==
    IF i < m_loadedTextures
    THEN DestroyGLTexturesLoop(i + 1, [ids EXCEPT ![i].ID = Len(textures) + 1],
                               Append(textures, GeneratedTexture))
    ELSE [ids |-> ids, textures |-> textures]

DestroyGLTextures ==
    LET after == DestroyGLTexturesLoop(0, m_textureIDs, glTextures) IN
    /\ m_textureIDs' = after.ids
    /\ glTextures' = after.textures
    /\ UNCHANGED << m_loadedTextures, glActiveUnit, glBound, stbiLive >>

RECURSIVE FindTextureIDLoop(_, _)
FindTextureIDLoop(tag, index) ==
    IF index < m_loadedTextures
    THEN IF m_textureIDs[index].tag = tag
         THEN m_textureIDs[index].ID
         ELSE FindTextureIDLoop(tag, index + 1)
    ELSE -1

FindTextureID(tag) == FindTextureIDLoop(tag, 0)

RECURSIVE FindTextureSlotLoop(_, _)
FindTextureSlotLoop(tag, index) ==
    IF index < m_loadedTextures
    THEN IF m_textureIDs[index].tag = tag
         THEN index
         ELSE FindTextureSlotLoop(tag, index + 1)
    ELSE -1

\* variant: the scan keeps going after a match, so the last match wins
RECURSIVE FindTextureSlotLastLoop(_, _, _)
FindTextureSlotLastLoop(tag, index, textureSlot) ==
    IF index < m_loadedTextures
    THEN FindTextureSlotLastLoop(tag, index + 1,
             IF m_textureIDs[index].tag = tag THEN index ELSE textureSlot)
    ELSE textureSlot

FindTextureSlotLastMatch(tag) == FindTextureSlotLastLoop(tag, 0, -1)

\* variant: the slots are counted from 1
FindTextureSlotOneBased(tag) ==
    IF FindTextureSlotLoop(tag, 0) = -1 THEN -1 ELSE FindTextureSlotLoop(tag, 0) + 1

\* variant: textureSlot starts at 0 instead of -1
FindTextureSlotZeroInit(tag) ==
    IF FindTextureSlotLoop(tag, 0) = -1 THEN 0 ELSE FindTextureSlotLoop(tag, 0)

FindTextureSlot(tag) == FindTextureSlotLoop(tag, 0)

\* the uniforms after SetShaderTexture(textureTag) on uniforms u
ShaderTexture(u, textureTag) ==
    IF m_pShaderManager # NULL
    THEN [u EXCEPT !["bUseTexture"] = TRUE,
                   !["objectTexture"] = FindTextureSlot(textureTag)]
    ELSE u

SetShaderTexture(textureTag) ==
    /\ uniforms' = ShaderTexture(uniforms, textureTag)
    /\ lastCall' = [op |-> "SetShaderTexture", arg |-> textureTag, ret |-> 0]

\* variant: SetShaderColor also puts the UV scale back to (1, 1)
ShaderColorResetsUVScale(u, rgba) ==
    IF m_pShaderManager # NULL
    THEN [u EXCEPT !["bUseTexture"] = FALSE, !["objectColor"] = rgba,
                   !["UVscale"] = <<1000, 1000>>]
    ELSE u

\* the uniforms after SetShaderColor(r, g, b, a) on uniforms u
ShaderColor(u, rgba) ==
    IF m_pShaderManager # NULL
    THEN [u EXCEPT !["bUseTexture"] = FALSE, !["objectColor"] = rgba]
    ELSE u

\* the uniforms after SetTextureUVScale(u, v) on uniforms un
TextureUVScale(un, u, v) ==
    IF m_pShaderManager # NULL
    THEN [un EXCEPT !["UVscale"] = <<u, v>>]
    ELSE un

----------------------------------------------------------------------------
(* Material registry *)

\* an OBJECT_MATERIAL; ambientColor and ambientStrength are left out: no
\* code reads them
Material(tag, diffuse, specular, shininess) ==
    [tag |-> tag, diffuseColor |-> diffuse, specularColor |-> specular,
     shininess |-> shininess]

\* what a default-constructed OBJECT_MATERIAL may hold: the tag is the empty
\* string, the vec3 and float members are not initialised
IndeterminateMaterials ==
    { Material("", <<0, 0, 0>>, <<0, 0, 0>>, 0),
      Material("", <<-7, 13, 999>>, <<5, -5, 1>>, -3) }

\* m_objectMaterials.push_back(material)
DefineMaterial(material) ==
    m_objectMaterials' = Append(m_objectMaterials, material)

RECURSIVE FindMaterialLoop(_, _, _)
FindMaterialLoop(tag, material, index) ==
    IF index < Len(m_objectMaterials)
    THEN IF m_objectMaterials[index + 1].tag = tag
         THEN [material EXCEPT
                 !.diffuseColor = m_objectMaterials[index + 1].diffuseColor,
                 !.specularColor = m_objectMaterials[index + 1].specularColor,
                 !.shininess = m_objectMaterials[index + 1].shininess]
         ELSE FindMaterialLoop(tag, material, index + 1)
    ELSE material

\* variant: the result says whether an entry matched
FindMaterialReportsMatch(tag, material) ==
    [ret |-> \E k \in 1 .. Len(m_objectMaterials) : m_objectMaterials[k].tag = tag,
     material |-> FindMaterialLoop(tag, material, 0)]

\* FindMaterial(tag, material): the result and the output parameter
FindMaterial(tag, material) ==
    IF Len(m_objectMaterials) = 0
    THEN [ret |-> FALSE, material |-> material]
    ELSE [ret |-> TRUE, material |-> FindMaterialLoop(tag, material, 0)]

\* the uniforms after SetShaderMaterial(materialTag) on uniforms u, where
\* local is what the local variable "material" holds before FindMaterial
ShaderMaterial(u, materialTag, local) ==
    IF Len(m_objectMaterials) > 0
    THEN LET found == FindMaterial(materialTag, local) IN
         IF found.ret = TRUE
         THEN [u EXCEPT !["material.diffuseColor"] = found.material.diffuseColor,
                        !["material.specularColor"] = found.material.specularColor,
                        !["material.shininess"] = found.material.shininess]
         ELSE u
    ELSE u

SetShaderMaterial(materialTag) ==
    \E local \in IndeterminateMaterials :
        /\ uniforms' = ShaderMaterial(uniforms, materialTag, local)
        /\ lastCall' = [op |-> "SetShaderMaterial", arg |-> materialTag, ret |-> 0]

----------------------------------------------------------------------------
(* Transform composer *)

\* sine of whole degrees in thousandths, for the angles the model uses
SineTable == [d \in {0, 10, 30, 45, 60, 80, 90} |->
                 CASE d = 0 -> 0 [] d = 10 -> 174 [] d = 30 -> 500 [] d = 45 -> 707
                   [] d = 60 -> 866 [] d = 80 -> 985 [] d = 90 -> 1000]

\* sin(glm::radians(deg)) and cos(glm::radians(deg)), in thousandths
SinDeg(deg) ==
    LET r == deg % 360 IN
    IF r <= 90 THEN SineTable[r]
    ELSE IF r <= 180 THEN SineTable[180 - r]
    ELSE IF r <= 270 THEN 0 - SineTable[r - 180]
    ELSE 0 - SineTable[360 - r]

CosDeg(deg) == SinDeg(deg + 90)

\* product of two numbers kept in thousandths
Mul(a, b) == (a * b) \div 1000

\* glm: operator*(mat4, mat4)
MatEntry(A, B, i, j) ==
    Mul(A[i][1], B[1][j]) + Mul(A[i][2], B[2][j])
    + Mul(A[i][3], B[3][j]) + Mul(A[i][4], B[4][j])
MatRow(A, B, i) ==
    << MatEntry(A, B, i, 1), MatEntry(A, B, i, 2), MatEntry(A, B, i, 3),
       MatEntry(A, B, i, 4) >>
MatMul(A, B) == << MatRow(A, B, 1), MatRow(A, B, 2), MatRow(A, B, 3), MatRow(A, B, 4) >>

\* glm::scale(v)
ScaleMat(v) ==
    << <<v[1], 0, 0, 0>>, <<0, v[2], 0, 0>>, <<0, 0, v[3], 0>>, <<0, 0, 0, 1000>> >>

\* glm::translate(v)
TranslateMat(v) ==
    << <<1000, 0, 0, v[1]>>, <<0, 1000, 0, v[2]>>, <<0, 0, 1000, v[3]>>,
       <<0, 0, 0, 1000>> >>

\* glm::rotate(glm::radians(deg), a) for a unit axis a
RotateMat(deg, a) ==
    LET c == CosDeg(deg)
        sn == SinDeg(deg)
        t == << Mul(1000 - c, a[1]), Mul(1000 - c, a[2]), Mul(1000 - c, a[3]) >>
    IN << << c + Mul(t[1], a[1]), Mul(t[2], a[1]) - Mul(sn, a[3]),
             Mul(t[3], a[1]) + Mul(sn, a[2]), 0 >>,
          << Mul(t[1], a[2]) + Mul(sn, a[3]), c + Mul(t[2], a[2]),
             Mul(t[3], a[2]) - Mul(sn, a[1]), 0 >>,
          << Mul(t[1], a[3]) - Mul(sn, a[2]), Mul(t[2], a[3]) + Mul(sn, a[1]),
             c + Mul(t[3], a[3]), 0 >>,
          << 0, 0, 0, 1000 >> >>

AxisX == <<1000, 0, 0>>
AxisY == <<0, 1000, 0>>
AxisZ == <<0, 0, 1000>>

\* variant: the factors are multiplied in the opposite order
ModelViewReversed(scaleXYZ, Xdeg, Ydeg, Zdeg, positionXYZ) ==
    MatMul(MatMul(MatMul(MatMul(ScaleMat(scaleXYZ), RotateMat(Xdeg, AxisX)),
                         RotateMat(Ydeg, AxisY)),
                  RotateMat(Zdeg, AxisZ)),
           TranslateMat(positionXYZ))

\* modelView of SetTransformations
ModelView(scaleXYZ, Xdeg, Ydeg, Zdeg, positionXYZ) ==
    LET scale == ScaleMat(scaleXYZ)
        rotationX == RotateMat(Xdeg, AxisX)
        rotationY == RotateMat(Ydeg, AxisY)
        rotationZ == RotateMat(Zdeg, AxisZ)
        translation == TranslateMat(positionXYZ)
    IN MatMul(MatMul(MatMul(MatMul(translation, rotationZ), rotationY), rotationX),
              scale)

\* the upload that ends SetTransformations: the uniforms after it, on
\* uniforms u, for the modelView it has computed
Transformations(u, modelView) ==
    IF m_pShaderManager # NULL
    THEN [u EXCEPT !["model"] = modelView]
    ELSE u

SetTransformations(scaleXYZ, Xdeg, Ydeg, Zdeg, positionXYZ) ==
    /\ uniforms' = Transformations(uniforms,
                       ModelView(scaleXYZ, Xdeg, Ydeg, Zdeg, positionXYZ))
    /\ lastCall' = [op |-> "SetTransformations",
                    arg |-> <<scaleXYZ, Xdeg, Ydeg, Zdeg, positionXYZ>>, ret |-> 0]

----------------------------------------------------------------------------
(* Construction *)

InitObject ==
    /\ m_pShaderManager = "shader"
    /\ m_textureIDs = [i \in Units |-> EmptyTextureInfo]
    /\ m_loadedTextures = InitialLoadedTextures
    /\ m_objectMaterials = << >>
    /\ glTextures = << >>
    /\ glActiveUnit = 0
    /\ glBound = [u \in Units |-> 0]
    /\ stbiLive = 0
    /\ uniforms = InitialUniforms
    /\ meshLoads = [k \in {} |-> 0]
    /\ lastCall = NoCall
    /\ bindAllRan = FALSE
    /\ pc = "start"
    /\ ip = 0
    /\ frame = 0
    /\ prepLog = << >>
    /\ routineLog = << >>
    /\ drawLog = << >>
    /\ firstDraws = << >>

Init ==
    /\ InitObject
    /\ args = << >>

----------------------------------------------------------------------------
(* Registry specification: any sequence of calls on the texture registry *)

AllTags == Tags \cup {NoSuchTag}

\* materials the registry specification defines; two of them share a tag
MaterialInputs ==
    { Material("wood", <<200, 200, 300>>, <<0, 0, 0>>, 100),
      Material("wood", <<200, 200, 200>>, <<1000, 1000, 1000>>, 95000),
      Material("clay", <<400, 400, 500>>, <<200, 200, 400>>, 500) }
MaterialTags == {"wood", "clay", NoSuchTag}

CallCreateGLTexture ==
    \E tag \in Tags, ch \in Channels :
        /\ m_loadedTextures < MaxLoads
        /\ ch # 0 => Len(glTextures) < MaxGen
        /\ CreateGLTexture(tag, ch)
        /\ UNCHANGED << m_pShaderManager, m_objectMaterials, uniforms, meshLoads,
                        bindAllRan, sceneVars >>

CallBindGLTextures ==
    /\ BindGLTextures
    /\ lastCall' = [op |-> "BindGLTextures", arg |-> "", ret |-> 0]
    /\ UNCHANGED << m_pShaderManager, m_objectMaterials, uniforms, meshLoads, sceneVars >>

CallFindTextureID ==
    \E tag \in AllTags :
        /\ lastCall' = [op |-> "FindTextureID", arg |-> tag, ret |-> FindTextureID(tag)]
        /\ UNCHANGED << m_pShaderManager, texVars, m_objectMaterials, glVars, uniforms,
                        meshLoads, bindAllRan, sceneVars >>

CallFindTextureSlot ==
    \E tag \in AllTags :
        /\ lastCall' = [op |-> "FindTextureSlot", arg |-> tag, ret |-> FindTextureSlot(tag)]
        /\ UNCHANGED << m_pShaderManager, texVars, m_objectMaterials, glVars, uniforms,
                        meshLoads, bindAllRan, sceneVars >>

CallSetShaderTexture ==
    \E tag \in AllTags :
        /\ SetShaderTexture(tag)
        /\ UNCHANGED << m_pShaderManager, texVars, m_objectMaterials, glVars,
                        meshLoads, bindAllRan, sceneVars >>

CallDefineMaterial ==
    \E material \in MaterialInputs :
        /\ Len(m_objectMaterials) < MaxMaterials
        /\ DefineMaterial(material)
        /\ lastCall' = [op |-> "DefineMaterial", arg |-> material.tag, ret |-> 0]
        /\ UNCHANGED << m_pShaderManager, texVars, glVars, uniforms, meshLoads,
                        bindAllRan, sceneVars >>

CallFindMaterial ==
    \E tag \in MaterialTags, material \in IndeterminateMaterials :
        /\ lastCall' = [op |-> "FindMaterial", arg |-> tag,
                        ret |-> FindMaterial(tag, material)]
        /\ UNCHANGED << m_pShaderManager, texVars, m_objectMaterials, glVars, uniforms,
                        meshLoads, bindAllRan, sceneVars >>

CallSetShaderMaterial ==
    \E tag \in MaterialTags :
        /\ SetShaderMaterial(tag)
        /\ UNCHANGED << m_pShaderManager, texVars, m_objectMaterials, glVars,
                        meshLoads, bindAllRan, sceneVars >>

\* the texture registry and the texture setter
Next ==
    \/ CallCreateGLTexture
    \/ CallBindGLTextures
    \/ CallFindTextureID
    \/ CallFindTextureSlot
    \/ CallSetShaderTexture

Spec == Init /\ [][Next]_vars

\* the material registry and the material setter
NextMaterial ==
    \/ CallDefineMaterial
    \/ CallFindMaterial
    \/ CallSetShaderMaterial

SpecMaterial == Init /\ [][NextMaterial]_vars

\* Load and Define calls followed by lookups
NextLookup ==
    \/ CallCreateGLTexture
    \/ CallDefineMaterial
    \/ CallFindTextureID
    \/ CallFindTextureSlot
    \/ CallFindMaterial

SpecLookup == Init /\ [][NextLookup]_vars

\* loads up to and past the capacity of the registry: one tag, and files that
\* decode to three channels or do not decode.  GL units past TexCapacity are
\* not tracked.
MaxCapacityLoads == 17

CallCreateGLTextureToCapacity ==
    \E ch \in {0, 3} :
        /\ m_loadedTextures < MaxCapacityLoads
        /\ CreateGLTexture("floor", ch)
        /\ UNCHANGED << m_pShaderManager, m_objectMaterials, uniforms, meshLoads,
                        bindAllRan, sceneVars >>

NextCapacity ==
    \/ CallCreateGLTextureToCapacity
    \/ CallBindGLTextures

SpecCapacity == Init /\ [][NextCapacity]_vars

\* the life of a SceneManager up to its destruction
MaxHandles == 6    \* GL texture names generated in the teardown specification

CallDestroyGLTextures ==
    /\ Len(glTextures) + m_loadedTextures <= MaxHandles
    /\ DestroyGLTextures
    /\ lastCall' = [op |-> "DestroyGLTextures", arg |-> "", ret |-> 0]
    /\ UNCHANGED << m_pShaderManager, m_objectMaterials, uniforms, meshLoads,
                    bindAllRan, sceneVars >>

\* ~SceneManager(): the shader pointer is cleared and the meshes are deleted
Destructor ==
    /\ pc' = "destroyed"
    /\ m_pShaderManager' = NULL
    /\ meshLoads' = [k \in {} |-> 0]
    /\ lastCall' = [op |-> "~SceneManager", arg |-> "", ret |-> 0]
    /\ UNCHANGED << texVars, m_objectMaterials, glVars, uniforms, bindAllRan,
                    ip, frame, prepLog, routineLog, drawLog, firstDraws, args >>

\* no member function is called on a destroyed object
Alive == pc # "destroyed"

NextTeardown ==
    \/ Alive /\ CallCreateGLTexture
    \/ Alive /\ CallBindGLTextures
    \/ Alive /\ CallDestroyGLTextures
    \/ Alive /\ Destructor

SpecTeardown == Init /\ [][NextTeardown]_vars

\* the transform composer on whole scales and translations and on rotations
\* by quarter turns
ScaleValues == {1000, 2000}
TranslateValues == {-1000, 0, 5000}
QuarterTurns == {-90, 0, 90, 180}

ComposeInputs ==
    { << <<s1, s2, s3>>, rx, ry, rz, <<t1, t2, t3>> >> :
        s1 \in ScaleValues, s2 \in ScaleValues, s3 \in ScaleValues,
        rx \in QuarterTurns, ry \in QuarterTurns, rz \in QuarterTurns,
        t1 \in TranslateValues, t2 \in TranslateValues, t3 \in TranslateValues }

InitCompose ==
    /\ InitObject
    /\ args \in ComposeInputs

CallSetTransformations ==
    /\ args # << >>
    /\ SetTransformations(args[1], args[2], args[3], args[4], args[5])
    /\ args' = << >>
    /\ UNCHANGED << m_pShaderManager, texVars, m_objectMaterials, glVars,
                    meshLoads, bindAllRan, pc, ip, frame, prepLog, routineLog,
                    drawLog, firstDraws >>

NextCompose == CallSetTransformations

SpecCompose == InitCompose /\ [][NextCompose]_vars

----------------------------------------------------------------------------
(* Scene preparation *)

MaxFailures == 2   \* texture loads of LoadSceneTextures that fail
MaxFrames == 2     \* RenderScene calls

\* the CreateGLTexture calls of LoadSceneTextures, in order
SceneTextures ==
    << [file |-> "./textures/wood.jpg", tag |-> "floor"],
       [file |-> "./textures/wall.jpg", tag |-> "wall"],
       [file |-> "./textures/tan.jpg", tag |-> "vase"],
       [file |-> "./textures/red.jpeg", tag |-> "book"],
       [file |-> "./textures/brick.jpeg", tag |-> "brick"],
       [file |-> "./textures/glass.jpg", tag |-> "window"],
       [file |-> "./textures/green.jpg", tag |-> "book1"],
       [file |-> "./textures/blue.jpg", tag |-> "book2"],
       [file |-> "./textures/desk.jpg", tag |-> "desk"],
       [file |-> "./textures/book3.jpg", tag |-> "book3"],
       [file |-> "./textures/fur.jpeg", tag |-> "cat"] >>

\* what stbi_load can report for the scene's files, which are all JPEGs: NULL
\* (0), one channel (greyscale) or three
SceneChannels == {0, 1, 3}

\* the materials DefineObjectMaterials pushes, in order; the fourth is
\* clothMaterial, which is never assigned (the "cloth" values go to
\* glassMaterial after its copy was pushed): cloth is what it happens to hold
ObjectMaterials(cloth) ==
    << Material("clay", <<400, 400, 500>>, <<200, 200, 400>>, 500),
       Material("wood", <<200, 200, 300>>, <<0, 0, 0>>, 100),
       Material("glass", <<200, 200, 200>>, <<1000, 1000, 1000>>, 95000),
       cloth >>

\* the uniform writes of SetupSceneLights
SceneLights ==
    [n \in { "bUseLighting",
             "directionalLight.direction", "directionalLight.ambient",
             "directionalLight.diffuse", "directionalLight.specular",
             "directionalLight.bActive",
             "pointLights[0].position", "pointLights[0].ambient",
             "pointLights[0].diffuse", "pointLights[0].specular",
             "pointLights[0].bActive",
             "spotLight.position", "spotLight.direction", "spotLight.ambient",
             "spotLight.diffuse", "spotLight.specular", "spotLight.constant",
             "spotLight.linear", "spotLight.quadratic", "spotLight.cutOff",
             "spotLight.outerCutOff", "spotLight.bActive" } |->
        CASE n = "bUseLighting" -> TRUE
          [] n = "directionalLight.direction" -> <<0, -1000, 1000>>
          [] n = "directionalLight.ambient" -> <<100, 100, 100>>
          [] n = "directionalLight.diffuse" -> <<1000, 1000, 1000>>
          [] n = "directionalLight.specular" -> <<1000, 1000, 1000>>
          [] n = "directionalLight.bActive" -> TRUE
          [] n = "pointLights[0].position" -> <<-4000, 8000, 0>>
          [] n = "pointLights[0].ambient" -> <<1000, 600, 100>>
          [] n = "pointLights[0].diffuse" -> <<100, 100, 100>>
          [] n = "pointLights[0].specular" -> <<100, 100, 100>>
          [] n = "pointLights[0].bActive" -> TRUE
          [] n = "spotLight.position" -> <<3000, 8000, -10000>>
          [] n = "spotLight.direction" -> <<500, -500, 1000>>
          [] n = "spotLight.ambient" -> <<1000, 1000, 1000>>
          [] n = "spotLight.diffuse" -> <<1000, 1000, 1000>>
          [] n = "spotLight.specular" -> <<1000, 1000, 1000>>
          [] n = "spotLight.constant" -> 1000
          [] n = "spotLight.linear" -> 300
          [] n = "spotLight.quadratic" -> 10
          [] n = "spotLight.cutOff" -> CosDeg(10)
          [] n = "spotLight.outerCutOff" -> CosDeg(30)
          [] n = "spotLight.bActive" -> TRUE]

\* variant: the box mesh is loaded twice and the prism mesh not at all
MeshLoadCallsBoxTwice ==
    << "Plane", "Sphere", "Torus", "TaperedCylinder", "Box", "Cylinder", "Box" >>

\* variant: the LoadCylinderMesh call is missing
MeshLoadCallsNoCylinder ==
    << "Plane", "Sphere", "Torus", "TaperedCylinder", "Box", "Prism" >>

\* the LoadXMesh calls of PrepareScene, in order
MeshLoadCalls ==
    << "Plane", "Sphere", "Torus", "TaperedCylinder", "Box", "Cylinder", "Prism" >>

FailedLoads == ip - (m_loadedTextures - InitialLoadedTextures)

\* PrepareScene is entered and calls LoadSceneTextures
PrepareScene ==
    /\ pc = "start"
    /\ pc' = "LoadSceneTextures"
    /\ ip' = 0
    /\ lastCall' = [op |-> "PrepareScene", arg |-> "", ret |-> 0]
    /\ UNCHANGED << m_pShaderManager, texVars, m_objectMaterials, glVars, uniforms,
                    meshLoads, bindAllRan, frame, prepLog, routineLog, drawLog,
                    firstDraws, args >>

\* one bReturn = CreateGLTexture(file, tag) of LoadSceneTextures
LoadSceneTexture ==
    /\ pc = "LoadSceneTextures"
    /\ ip < Len(SceneTextures)
    /\ \E ch \in SceneChannels :
          /\ ch # 3 => FailedLoads < MaxFailures
          /\ CreateGLTexture(SceneTextures[ip + 1].tag, ch)
    /\ prepLog' = Append(prepLog, [call |-> "CreateGLTexture",
                                   arg |-> SceneTextures[ip + 1].tag,
                                   ret |-> lastCall'.ret])
    /\ ip' = ip + 1
    /\ UNCHANGED << m_pShaderManager, m_objectMaterials, uniforms, meshLoads,
                    bindAllRan, pc, frame, routineLog, drawLog, firstDraws, args >>

\* the BindGLTextures() that ends LoadSceneTextures
LoadSceneTexturesBind ==
    /\ pc = "LoadSceneTextures"
    /\ ip = Len(SceneTextures)
    /\ BindGLTextures
    /\ lastCall' = [op |-> "BindGLTextures", arg |-> "", ret |-> 0]
    /\ prepLog' = Append(prepLog, [call |-> "BindGLTextures", arg |-> "", ret |-> 0])
    /\ pc' = "DefineObjectMaterials"
    /\ UNCHANGED << m_pShaderManager, m_objectMaterials, uniforms, meshLoads,
                    ip, frame, routineLog, drawLog, firstDraws, args >>

DefineObjectMaterials ==
    /\ pc = "DefineObjectMaterials"
    /\ \E cloth \in IndeterminateMaterials :
          m_objectMaterials' = m_objectMaterials \o ObjectMaterials(cloth)
    /\ lastCall' = [op |-> "DefineObjectMaterials", arg |-> "", ret |-> 0]
    /\ prepLog' = Append(prepLog, [call |-> "DefineObjectMaterials", arg |-> "", ret |-> 0])
    /\ pc' = "SetupSceneLights"
    /\ UNCHANGED << m_pShaderManager, texVars, glVars, uniforms, meshLoads,
                    bindAllRan, ip, frame, routineLog, drawLog, firstDraws, args >>

\* variant: the second point light is switched on as well
LightUniformsSecondPoint(u) ==
    [n \in UniformNames |->
        IF n \in DOMAIN SceneLights THEN SceneLights[n]
        ELSE IF n = "pointLights[1].bActive" THEN TRUE ELSE u[n]]

\* the uniforms after the calls of SetupSceneLights on uniforms u
LightUniforms(u) ==
    [n \in UniformNames |-> IF n \in DOMAIN SceneLights THEN SceneLights[n] ELSE u[n]]

SetupSceneLights ==
    /\ pc = "SetupSceneLights"
    /\ uniforms' = LightUniforms(uniforms)
    /\ lastCall' = [op |-> "SetupSceneLights", arg |-> "", ret |-> 0]
    /\ prepLog' = Append(prepLog, [call |-> "SetupSceneLights", arg |-> "", ret |-> 0])
    /\ pc' = "LoadMeshes"
    /\ ip' = 0
    /\ UNCHANGED << m_pShaderManager, texVars, m_objectMaterials, glVars, meshLoads,
                    bindAllRan, frame, routineLog, drawLog, firstDraws, args >>

\* one m_basicMeshes->LoadXMesh() of PrepareScene; after the last one
\* PrepareScene returns
LoadMesh ==
    /\ pc = "LoadMeshes"
    /\ ip < Len(MeshLoadCalls)
    /\ LET kind == MeshLoadCalls[ip + 1] IN
          /\ meshLoads' = [k \in DOMAIN meshLoads \cup {kind} |->
                              IF k = kind
                              THEN (IF k \in DOMAIN meshLoads THEN meshLoads[k] ELSE 0) + 1
                              ELSE meshLoads[k]]
          /\ lastCall' = [op |-> "LoadMesh", arg |-> kind, ret |-> 0]
          /\ prepLog' = Append(prepLog, [call |-> "LoadMesh", arg |-> kind, ret |-> 0])
    /\ ip' = ip + 1
    /\ pc' = IF ip + 1 = Len(MeshLoadCalls) THEN "ready" ELSE pc
    /\ UNCHANGED << m_pShaderManager, texVars, m_objectMaterials, glVars, uniforms,
                    bindAllRan, frame, routineLog, drawLog, firstDraws, args >>

----------------------------------------------------------------------------
(* Object routines *)

\* the calls an object routine makes; a SetTransformations call is kept with
\* its arguments and with the modelView it computes from them
T(scaleXYZ, Xdeg, Ydeg, Zdeg, positionXYZ) ==
    [op |-> "SetTransformations", scale |-> scaleXYZ, rx |-> Xdeg, ry |-> Ydeg,
     rz |-> Zdeg, pos |-> positionXYZ,
     modelView |-> ModelView(scaleXYZ, Xdeg, Ydeg, Zdeg, positionXYZ)]
Tex(tag) == [op |-> "SetShaderTexture", tag |-> tag]
UV(u, v) == [op |-> "SetTextureUVScale", u |-> u, v |-> v]
Mat(tag) == [op |-> "SetShaderMaterial", tag |-> tag]
Color(rgba) == [op |-> "SetShaderColor", rgba |-> rgba]
Draw(kind) == [op |-> "Draw", kind |-> kind]

\* the calls of RenderFloor, in order, with the values of its locals filled in
RenderFloorCalls ==
    <<
       T(<<8500, 0, 4800>>, 0, 0, 0, <<2000, 0, 0>>),
         Tex("wall"), UV(1000, 1000), Mat("wood"), Draw("Plane")
    >>

\* the calls of RenderWall, in order, with the values of its locals filled in
RenderWallCalls ==
    <<
       T(<<8500, 0, 6000>>, 90, 0, 0, <<2000, 6000, -4000>>),
         Tex("brick"), UV(2000, 1000), Draw("Plane"),
       T(<<4800, 0, 6000>>, 0, 90, 90, <<10510, 6000, 0>>),
         Color(<<1000, 1000, 1000, 1000>>), Draw("Plane"),
       T(<<4800, 0, 6000>>, 0, 90, 90, <<-6500, 6000, 0>>),
         Color(<<1000, 1000, 1000, 1000>>), Draw("Plane")
    >>

\* the calls of RenderWindow, in order, with the values of its locals filled in
RenderWindowCalls ==
    <<
       T(<<7000, 500, 10000>>, 90, 0, 0, <<6000, 6000, -4000>>),
         Tex("window"), UV(1000, 1000), Mat("glass"), Draw("Box")
    >>

\* the calls of RenderVase, in order, with the values of its locals filled in
RenderVaseCalls ==
    <<
       T(<<800, 500, 1000>>, 0, 0, 0, <<9000, 4850, 3000>>), Tex("vase"), Draw("Sphere"),
       T(<<900, 700, 1000>>, 180, 0, 0, <<9000, 5500, 3000>>),
         Tex("vase"), UV(1000, 1000), Mat("clay"), Draw("TaperedCylinder"),
       T(<<1000, 50, 800>>, 180, 0, 0, <<9000, 4600, 3000>>),
         Tex("tan"), UV(1000, 1000), Mat("clay"), Draw("TaperedCylinder")
    >>

\* the calls of RenderBookcase, in order, with the values of its locals filled in
RenderBookcaseCalls ==
    <<
       T(<<3000, 200, 5000>>, 0, 0, 0, <<9000, 4400, 2000>>),
         Tex("floor"), UV(1000, 1000), Mat("wood"), Draw("Box"),
       T(<<3000, 200, 5000>>, 0, 0, 0, <<9000, 100, 2000>>),
         Tex("floor"), UV(1000, 1000), Mat("wood"), Draw("Box"),
       T(<<3000, 200, 5000>>, 0, 0, 0, <<9000, 2200, 2000>>),
         Tex("floor"), UV(1000, 1000), Mat("wood"), Draw("Box"),
       T(<<3000, 4700, 500>>, 0, 0, 0, <<9000, 2200, -700>>),
         Tex("floor"), UV(1000, 1000), Mat("wood"), Draw("Box"),
       T(<<3000, 4700, 500>>, 0, 0, 0, <<9000, 2200, 4500>>),
         Tex("floor"), UV(1000, 1000), Mat("wood"), Draw("Box")
    >>

\* variant: the step at lines 1112-1130 also draws its box
RenderBookCallsNineDraws ==
    <<
       T(<<1500, 2000, 200>>, 0, 0, 0, <<9000, 5400, 1500>>), Tex("book"), Draw("Box"),
       T(<<1500, 1800, 200>>, 0, 0, 0, <<9000, 3100, 3000>>), Tex("book"), Draw("Box"),
       T(<<1500, 1400, 200>>, 0, 0, 0, <<8800, 3000, 2600>>), Tex("book1"), Draw("Box"),
       T(<<1500, 1400, 200>>, 0, 0, 0, <<8800, 3000, 2000>>), Tex("book2"), Draw("Box"),
       T(<<1500, 1000, 200>>, 0, 0, 0, <<8800, 2800, 1700>>), Tex("book"), Draw("Box"),
       T(<<1500, 1400, 200>>, 0, 0, 0, <<8800, 5000, 2000>>), Tex("book2"), Draw("Box"),
       T(<<1500, 2000, 200>>, 0, 0, 0, <<8800, 5300, 1200>>), Tex("book1"), Draw("Box"),
       T(<<1500, 2000, 200>>, 0, 0, 0, <<1600, 5200, -1500>>), Tex("book"), Draw("Box"),
       T(<<1000, 1500, 200>>, 0, 0, 0, <<1600, 5000, -1200>>), Tex("book3"), Draw("Box")
    >>

\* the calls of RenderBook, in order, with the values of its locals filled in
RenderBookCalls ==
    <<
       T(<<1500, 2000, 200>>, 0, 0, 0, <<9000, 5400, 1500>>), Tex("book"), Draw("Box"),
       T(<<1500, 1800, 200>>, 0, 0, 0, <<9000, 3100, 3000>>), Tex("book"), Draw("Box"),
       T(<<1500, 1400, 200>>, 0, 0, 0, <<8800, 3000, 2600>>), Tex("book1"), Draw("Box"),
       T(<<1500, 1400, 200>>, 0, 0, 0, <<8800, 3000, 2000>>), Tex("book2"), Draw("Box"),
       T(<<1500, 1000, 200>>, 0, 0, 0, <<8800, 2800, 1700>>), Tex("book"), Draw("Box"),
       T(<<1500, 1400, 200>>, 0, 0, 0, <<8800, 5000, 2000>>), Tex("book2"), Draw("Box"),
       T(<<1500, 2000, 200>>, 0, 0, 0, <<8800, 5300, 1200>>),
         Tex("book1"), T(<<1500, 2000, 200>>, 0, 0, 0, <<1600, 5200, -1500>>), Tex("book"), Draw("Box"),
       T(<<1000, 1500, 200>>, 0, 0, 0, <<1600, 5000, -1200>>), Tex("book3"), Draw("Box")
    >>

\* the calls of RenderDesk, in order, with the values of its locals filled in
RenderDeskCalls ==
    <<
       T(<<9000, 500, 2000>>, 0, 0, 0, <<-2000, 4000, -2000>>),
         Tex("floor"), UV(1000, 1000), Mat("wood"), Draw("Box"),
       T(<<500, 4000, 2000>>, 0, 0, 0, <<-6200, 2000, -2000>>),
         Tex("floor"), UV(1000, 1000), Mat("wood"), Draw("Box"),
       T(<<500, 4000, 2000>>, 0, 0, 0, <<2200, 2000, -2000>>),
         Tex("floor"), UV(1000, 1000), Mat("wood"), Draw("Box")
    >>

\* the calls of RenderCat, in order, with the values of its locals filled in
RenderCatCalls ==
    <<
       T(<<600, 1900, 500>>, 90, 90, 0, <<2000, 1000, 2000>>),
         Color(<<500, 500, 500, 1000>>), Draw("Cylinder"),
       T(<<300, 700, 500>>, 0, 0, 0, <<3500, 1000, 2000>>),
         Color(<<500, 500, 500, 1000>>), Draw("Cylinder"),
       T(<<600, 700, 500>>, 0, 0, 0, <<3500, 1700, 2000>>),
         Color(<<500, 500, 500, 1000>>), Draw("Sphere"),
       T(<<500, 600, 500>>, 90, 90, 0, <<3600, 1700, 2000>>),
         Color(<<500, 500, 500, 1000>>), UV(2000, 1000), Draw("TaperedCylinder"),
       T(<<200, 200, 100>>, -30, 0, 0, <<3400, 2400, 2000>>),
         Color(<<500, 500, 500, 1000>>), UV(2000, 1000), Draw("Prism"),
       T(<<200, 200, 100>>, -30, 0, 0, <<3400, 1700, 2000>>),
         Color(<<500, 500, 500, 1000>>), UV(2000, 1000), Draw("TaperedCylinder"),
       T(<<200, 200, 100>>, -30, 0, 0, <<3400, 2400, 2200>>),
         Color(<<500, 500, 500, 1000>>), UV(2000, 1000), Draw("Prism"),
       T(<<200, 700, 100>>, 0, 0, 0, <<3700, 0, 2200>>),
         Color(<<500, 500, 500, 1000>>), UV(2000, 1000), Draw("Cylinder"),
       T(<<200, 700, 100>>, 0, 0, 0, <<2300, 0, 2200>>),
         Color(<<500, 500, 500, 1000>>), UV(2000, 1000), Draw("Cylinder"),
       T(<<200, 700, 100>>, 0, 0, 0, <<3700, 0, 1700>>),
         Color(<<500, 500, 500, 1000>>), UV(2000, 1000), Draw("Cylinder"),
       T(<<200, 700, 100>>, 0, 0, 0, <<2300, 0, 1700>>),
         Color(<<500, 500, 500, 1000>>), UV(2000, 1000), Draw("Cylinder"),
       T(<<200, 1500, 100>>, -45, 90, 0, <<2300, 1000, 2000>>),
         Color(<<500, 500, 500, 1000>>), UV(2000, 1000), Draw("Cylinder")
    >>

\* variant: the window is drawn before the bookcase
RenderSceneCallsWindowFirst ==
    << "RenderFloor", "RenderWall", "RenderWindow", "RenderBookcase", "RenderVase",
       "RenderBook", "RenderDesk", "RenderCat" >>

\* the calls of RenderScene, in order
RenderSceneCalls ==
    << "RenderFloor", "RenderWall", "RenderBookcase", "RenderWindow", "RenderVase",
       "RenderBook", "RenderDesk", "RenderCat" >>

\* the uniforms a draw call is shaded with
ShadingUniforms == {"model", "bUseTexture", "objectTexture", "objectColor", "UVscale",
                    "material.diffuseColor", "material.specularColor",
                    "material.shininess"}

\* the uniforms after m_basicMeshes->DrawXMesh() on uniforms u: the mesh
\* library (ShapeMeshes, not part of this file) draws with the uniforms that
\* were set before the call and sets none
DrawMesh(u) == u

\* the record of one m_basicMeshes->DrawXMesh() call made in st: the
\* uniforms it is shaded with, and how many SetTransformations calls and how
\* many shading selections (SetShaderColor, SetShaderTexture) the routine
\* made since its previous draw call
DrawCall(routine, kind, st) ==
    [routine |-> routine, kind |-> kind,
     uniforms |-> [n \in ShadingUniforms |-> st.uniforms[n]],
     transforms |-> st.transforms, selections |-> st.selections]

\* the effect of one call c of a routine on st = [uniforms, draws, transforms,
\* selections]; local is what the local "material" of SetShaderMaterial holds
\* before FindMaterial
CallEffect(routine, st, c, local) ==
    CASE c.op = "SetTransformations" ->
           [st EXCEPT !.uniforms = Transformations(@, c.modelView),
                      !.transforms = @ + 1]
      [] c.op = "SetShaderTexture" ->
           [st EXCEPT !.uniforms = ShaderTexture(@, c.tag), !.selections = @ + 1]
      [] c.op = "SetTextureUVScale" ->
           [st EXCEPT !.uniforms = TextureUVScale(@, c.u, c.v)]
      [] c.op = "SetShaderMaterial" ->
           [st EXCEPT !.uniforms = ShaderMaterial(@, c.tag, local)]
      [] c.op = "SetShaderColor" ->
           [st EXCEPT !.uniforms = ShaderColor(@, c.rgba), !.selections = @ + 1]
      [] c.op = "Draw" ->
           [st EXCEPT !.uniforms = DrawMesh(@),
                      !.draws = Append(@, DrawCall(routine, c.kind, st)),
                      !.transforms = 0, !.selections = 0]

\* runs calls[i], calls[i+1], ... of a routine from st (the state after each
\* call is bound to next, so that it is computed once)
RECURSIVE RunCalls(_, _, _, _, _)
RunCalls(routine, calls, i, st, local) ==
    IF i > Len(calls)
    THEN st
    ELSE CHOOSE result \in { RunCalls(routine, calls, i + 1, next, local) :
                                next \in {CallEffect(routine, st, calls[i], local)} } : TRUE

\* what the local "material" of the SetShaderMaterial calls of a routine may
\* hold: when every tag the routine passes is defined, FindMaterial overwrites
\* the three fields that are uploaded, so one content stands for all
MaterialLocals(calls) ==
    IF \A i \in 1 .. Len(calls) :
          calls[i].op = "SetShaderMaterial" =>
              \E k \in 1 .. Len(m_objectMaterials) : m_objectMaterials[k].tag = calls[i].tag
    THEN {Material("", <<0, 0, 0>>, <<0, 0, 0>>, 0)}
    ELSE IndeterminateMaterials

\* RenderScene is entered
RenderScene ==
    /\ pc = "ready"
    /\ frame < MaxFrames
    /\ frame' = frame + 1
    /\ pc' = "RenderScene"
    /\ ip' = 0
    /\ routineLog' = << >>
    /\ drawLog' = << >>
    /\ lastCall' = [op |-> "RenderScene", arg |-> "", ret |-> 0]
    /\ UNCHANGED << m_pShaderManager, texVars, m_objectMaterials, glVars, uniforms,
                    meshLoads, bindAllRan, prepLog, firstDraws, args >>

DrawKinds(draws) == [i \in 1 .. Len(draws) |-> draws[i].kind]

\* the ip-th call of RenderScene, when it is a call of routine; after the
\* last call RenderScene returns
RenderRoutine(routine, calls) ==
    /\ pc = "RenderScene"
    /\ ip < Len(RenderSceneCalls)
    /\ RenderSceneCalls[ip + 1] = routine
    /\ \E local \in MaterialLocals(calls) :
       \E r \in { RunCalls(routine, calls, 1,
                            [uniforms |-> uniforms, draws |-> drawLog,
                             transforms |-> 0, selections |-> 0], local) } :
          /\ uniforms' = r.uniforms
          /\ drawLog' = r.draws
          /\ firstDraws' = IF ip + 1 = Len(RenderSceneCalls) /\ frame = 1
                           THEN DrawKinds(r.draws) ELSE firstDraws
    /\ routineLog' = Append(routineLog, routine)
    /\ lastCall' = [op |-> routine, arg |-> "", ret |-> 0]
    /\ ip' = ip + 1
    /\ pc' = IF ip + 1 = Len(RenderSceneCalls) THEN "ready" ELSE pc
    /\ UNCHANGED << m_pShaderManager, texVars, m_objectMaterials, glVars, meshLoads,
                    bindAllRan, frame, prepLog, args >>

RenderFloor == RenderRoutine("RenderFloor", RenderFloorCalls)
RenderWall == RenderRoutine("RenderWall", RenderWallCalls)
RenderBookcase == RenderRoutine("RenderBookcase", RenderBookcaseCalls)
RenderWindow == RenderRoutine("RenderWindow", RenderWindowCalls)
RenderVase == RenderRoutine("RenderVase", RenderVaseCalls)
RenderBook == RenderRoutine("RenderBook", RenderBookCalls)
RenderDesk == RenderRoutine("RenderDesk", RenderDeskCalls)
RenderCat == RenderRoutine("RenderCat", RenderCatCalls)

\* the driver: PrepareScene once, then RenderScene once per frame
NextScene ==
    \/ PrepareScene
    \/ LoadSceneTexture
    \/ LoadSceneTexturesBind
    \/ DefineObjectMaterials
    \/ SetupSceneLights
    \/ LoadMesh
    \/ RenderScene
    \/ RenderFloor
    \/ RenderWall
    \/ RenderBookcase
    \/ RenderWindow
    \/ RenderVase
    \/ RenderBook
    \/ RenderDesk
    \/ RenderCat

SpecScene == Init /\ [][NextScene]_vars

----------------------------------------------------------------------------
(* Properties *)

TextureSlots == 0 .. (m_loadedTextures - 1)
TextureTagPresent(tag) == \E i \in TextureSlots : m_textureIDs[i].tag = tag
FirstTextureSlot(tag) ==
    CHOOSE i \in TextureSlots :
        /\ m_textureIDs[i].tag = tag
        /\ \A j \in TextureSlots : m_textureIDs[j].tag = tag => i <= j

MaterialIndexes == 1 .. Len(m_objectMaterials)
MaterialTagPresent(tag) == \E i \in MaterialIndexes : m_objectMaterials[i].tag = tag
FirstMaterial(tag) ==
    m_objectMaterials[CHOOSE i \in MaterialIndexes :
        /\ m_objectMaterials[i].tag = tag
        /\ \A j \in MaterialIndexes : m_objectMaterials[j].tag = tag => i <= j]

\* C1: whatever Load and Define calls were made, duplicated tags included, a
\* lookup with a tag that is present yields the first entry inserted with
\* that tag: FindTextureID its handle, FindTextureSlot its index, and
\* FindMaterial its diffuse/specular/shininess in the output parameter.
C1_FirstMatchWins ==
    /\ \A tag \in AllTags :
          TextureTagPresent(tag) =>
            /\ FindTextureID(tag) = m_textureIDs[FirstTextureSlot(tag)].ID
            /\ FindTextureSlot(tag) = FirstTextureSlot(tag)
    /\ \A tag \in MaterialTags, out \in IndeterminateMaterials :
          MaterialTagPresent(tag) =>
            LET m == FindMaterial(tag, out).material IN
            /\ m.diffuseColor = FirstMaterial(tag).diffuseColor
            /\ m.specularColor = FirstMaterial(tag).specularColor
            /\ m.shininess = FirstMaterial(tag).shininess
    /\ (lastCall.op = "FindTextureID" /\ TextureTagPresent(lastCall.arg)) =>
          lastCall.ret = m_textureIDs[FirstTextureSlot(lastCall.arg)].ID
    /\ (lastCall.op = "FindTextureSlot" /\ TextureTagPresent(lastCall.arg)) =>
          lastCall.ret = FirstTextureSlot(lastCall.arg)
    /\ (lastCall.op = "FindMaterial" /\ MaterialTagPresent(lastCall.arg)) =>
          lastCall.ret.material.diffuseColor = FirstMaterial(lastCall.arg).diffuseColor

\* two textures and two materials share a tag but differ in content, and the
\* lookup that just ran was for the duplicated material tag
C1_Witness ==
    /\ m_loadedTextures >= 2
    /\ m_textureIDs[0].tag = m_textureIDs[1].tag
    /\ m_textureIDs[0].ID # m_textureIDs[1].ID
    /\ Len(m_objectMaterials) >= 2
    /\ m_objectMaterials[1].tag = m_objectMaterials[2].tag
    /\ m_objectMaterials[1].diffuseColor # m_objectMaterials[2].diffuseColor
    /\ lastCall.op = "FindMaterial"
    /\ lastCall.arg = m_objectMaterials[1].tag
    /\ lastCall.ret.material.diffuseColor = m_objectMaterials[1].diffuseColor

\* C2 as stated: after BindGLTextures, FindTextureSlot with the tag of the
\* n-th registered texture returns n, also when two loads used the same tag.
C2_SlotIsLoadIndex ==
    bindAllRan =>
        \A n \in TextureSlots : FindTextureSlot(m_textureIDs[n].tag) = n

\* C2 amended: after BindGLTextures, FindTextureSlot with the tag of the n-th
\* registered texture (failed loads do not count) returns n when no earlier
\* registered texture carries that tag, and otherwise the index of the
\* earliest registered texture that carries it.
C2_SlotIsFirstLoadIndex ==
    bindAllRan =>
        \A n \in TextureSlots :
            LET tag == m_textureIDs[n].tag
                earlier == {j \in TextureSlots : j < n /\ m_textureIDs[j].tag = tag}
            IN  IF earlier = {}
                THEN FindTextureSlot(tag) = n
                ELSE /\ FindTextureSlot(tag) \in earlier
                     /\ \A j \in earlier : FindTextureSlot(tag) <= j

\* BindGLTextures ran after a load that failed on its channel count and two
\* loads that succeeded with different tags; the second resolves to slot 1
C2_Witness ==
    /\ bindAllRan
    /\ m_loadedTextures >= 2
    /\ Len(glTextures) > m_loadedTextures
    /\ m_textureIDs[0].tag # m_textureIDs[1].tag
    /\ glBound[1] = m_textureIDs[1].ID
    /\ lastCall.op = "FindTextureSlot"
    /\ lastCall.arg = m_textureIDs[1].tag
    /\ lastCall.ret = 1

\* C3: SetShaderTexture with a tag no registry entry carries uploads -1 as
\* objectTexture, sets bUseTexture, and leaves the registry and the load
\* counter as they were.
C3_MissingTextureSentinel ==
    [][ (lastCall'.op = "SetShaderTexture" /\ ~TextureTagPresent(lastCall'.arg)) =>
           /\ uniforms'["objectTexture"] = -1
           /\ uniforms'["bUseTexture"] = TRUE
           /\ UNCHANGED texVars ]_vars

\* SetShaderTexture("nonexistent") has just run on a registry that holds
\* textures, after a texture had been selected
C3_Witness ==
    /\ lastCall.op = "SetShaderTexture"
    /\ lastCall.arg = NoSuchTag
    /\ m_loadedTextures >= 2
    /\ uniforms["objectTexture"] = -1
    /\ uniforms["bUseTexture"] = TRUE

\* C4: SetShaderMaterial("nonexistent") right after a successful
\* SetShaderMaterial("wood") leaves material.diffuseColor,
\* material.specularColor and material.shininess at the "wood" values.
C4_MissingMaterialKeepsUniforms ==
    [][ ( /\ lastCall.op = "SetShaderMaterial"
          /\ lastCall.arg = "wood"
          /\ MaterialTagPresent("wood")
          /\ lastCall'.op = "SetShaderMaterial"
          /\ ~MaterialTagPresent(lastCall'.arg) ) =>
           /\ uniforms'["material.diffuseColor"] = uniforms["material.diffuseColor"]
           /\ uniforms'["material.specularColor"] = uniforms["material.specularColor"]
           /\ uniforms'["material.shininess"] = uniforms["material.shininess"] ]_vars

IsRegisteredHandle(h) == \E i \in TextureSlots : m_textureIDs[i].ID = h

\* C10: a CreateGLTexture call, successful or not, before or after
\* BindGLTextures, leaves every texture unit that was bound to a registered
\* texture's handle bound to that handle.
C10_LoadKeepsBindings ==
    [][ lastCall'.op = "CreateGLTexture" =>
           \A u \in Units :
               IsRegisteredHandle(glBound[u]) => glBound'[u] = glBound[u] ]_vars

\* the image of point p under mat4 M (p extended by w = 1)
MatApplyRow(M, p, i) ==
    Mul(M[i][1], p[1]) + Mul(M[i][2], p[2]) + Mul(M[i][3], p[3]) + M[i][4]
MatApply(M, p) == << MatApplyRow(M, p, 1), MatApplyRow(M, p, 2), MatApplyRow(M, p, 3) >>

\* the elementary transformations, applied to a point one after the other
ScalePoint(v, p) == << Mul(v[1], p[1]), Mul(v[2], p[2]), Mul(v[3], p[3]) >>
RotateXPoint(deg, p) ==
    << p[1], Mul(CosDeg(deg), p[2]) - Mul(SinDeg(deg), p[3]),
       Mul(SinDeg(deg), p[2]) + Mul(CosDeg(deg), p[3]) >>
RotateYPoint(deg, p) ==
    << Mul(CosDeg(deg), p[1]) + Mul(SinDeg(deg), p[3]), p[2],
       Mul(CosDeg(deg), p[3]) - Mul(SinDeg(deg), p[1]) >>
RotateZPoint(deg, p) ==
    << Mul(CosDeg(deg), p[1]) - Mul(SinDeg(deg), p[2]),
       Mul(SinDeg(deg), p[1]) + Mul(CosDeg(deg), p[2]), p[3] >>
TranslatePoint(v, p) == << p[1] + v[1], p[2] + v[2], p[3] + v[3] >>

ProbePoints == { <<1000, 0, 0>>, <<0, 1000, 0>>, <<0, 0, 1000>>, <<0, 0, 0>>,
                 <<1000, 2000, 3000>> }

\* C9: SetTransformations uploads Translate x RotateZ x RotateY x RotateX x
\* Scale as the model uniform: a point is scaled, then rotated about X, then
\* about Y, then about Z, then translated; scale (2,1,1), rotY 90, translate
\* (5,0,0) sends (1,0,0) to (5,0,-2).
C9_ComposeOrder ==
    lastCall.op = "SetTransformations" =>
        LET a == lastCall.arg IN
        /\ \A p \in ProbePoints :
              MatApply(uniforms["model"], p) =
                TranslatePoint(a[5], RotateZPoint(a[4], RotateYPoint(a[3],
                    RotateXPoint(a[2], ScalePoint(a[1], p)))))
        /\ uniforms["model"][4] = <<0, 0, 0, 1000>>
        /\ a = << <<2000, 1000, 1000>>, 0, 90, 0, <<5000, 0, 0>> >> =>
              MatApply(uniforms["model"], <<1000, 0, 0>>) = <<5000, 0, -2000>>

\* the transform of the example has been uploaded
C9_Witness ==
    /\ lastCall.op = "SetTransformations"
    /\ lastCall.arg = << <<2000, 1000, 1000>>, 0, 90, 0, <<5000, 0, 0>> >>
    /\ MatApply(uniforms["model"], <<1000, 0, 0>>) = <<5000, 0, -2000>>

FrameDone == pc = "ready" /\ frame >= 1

RoutinesInOrder ==
    << "RenderFloor", "RenderWall", "RenderBookcase", "RenderWindow", "RenderVase",
       "RenderBook", "RenderDesk", "RenderCat" >>
RoutinePosition(routine) == CHOOSE k \in 1..8 : RoutinesInOrder[k] = routine

\* C5: every RenderScene call runs the eight object routines once each, in
\* the order floor, wall, bookcase, window, vase, book, desk, cat, and no
\* draw call of a later routine precedes a draw call of an earlier one.
C5_RoutineOrder ==
    /\ Len(routineLog) <= 8
    /\ routineLog = SubSeq(RoutinesInOrder, 1, Len(routineLog))
    /\ FrameDone => routineLog = RoutinesInOrder
    /\ \A i \in 1 .. Len(drawLog) :
          /\ \E k \in 1 .. Len(routineLog) : routineLog[k] = drawLog[i].routine
          /\ \A j \in 1 .. Len(drawLog) :
                i < j => RoutinePosition(drawLog[i].routine)
                           <= RoutinePosition(drawLog[j].routine)

\* the second RenderScene call has returned, having drawn for all eight routines
C5_Witness ==
    /\ pc = "ready"
    /\ frame = 2
    /\ Len(routineLog) = 8
    /\ drawLog[1].routine = "RenderFloor"
    /\ drawLog[Len(drawLog)].routine = "RenderCat"

DrawsOf(routine) == Cardinality({i \in 1 .. Len(drawLog) : drawLog[i].routine = routine})

FrameSnapshot ==
    << "Plane" >>
    \o << "Plane", "Plane", "Plane" >>
    \o << "Box", "Box", "Box", "Box", "Box" >>
    \o << "Box" >>
    \o << "Sphere", "TaperedCylinder", "TaperedCylinder" >>
    \o << "Box", "Box", "Box", "Box", "Box", "Box", "Box", "Box" >>
    \o << "Box", "Box", "Box" >>
    \o << "Cylinder", "Cylinder", "Sphere", "TaperedCylinder", "Prism",
          "TaperedCylinder", "Prism", "Cylinder", "Cylinder", "Cylinder", "Cylinder",
          "Cylinder" >>

\* C6: every RenderScene call issues the same sequence of primitive draw
\* calls, 36 in all (floor 1, wall 3, bookcase 5, window 1, vase 3, book 8,
\* desk 3, cat 12), whatever frames came before and whichever texture loads
\* failed.
C6_DeterministicDraws ==
    FrameDone =>
        /\ Len(drawLog) = 36
        /\ DrawKinds(drawLog) = FrameSnapshot
        /\ DrawKinds(drawLog) = firstDraws
        /\ DrawsOf("RenderFloor") = 1
        /\ DrawsOf("RenderWall") = 3
        /\ DrawsOf("RenderBookcase") = 5
        /\ DrawsOf("RenderWindow") = 1
        /\ DrawsOf("RenderVase") = 3
        /\ DrawsOf("RenderBook") = 8
        /\ DrawsOf("RenderDesk") = 3
        /\ DrawsOf("RenderCat") = 12

\* a second frame has been drawn in a scene where two texture loads failed
C6_Witness ==
    /\ pc = "ready"
    /\ frame = 2
    /\ m_loadedTextures = Len(SceneTextures) - 2
    /\ Len(drawLog) = 36
    /\ firstDraws = DrawKinds(drawLog)

PrepCallNames == [i \in 1 .. Len(prepLog) |-> prepLog[i].call]
PrepCallsInOrder ==
    << "CreateGLTexture", "CreateGLTexture", "CreateGLTexture", "CreateGLTexture",
       "CreateGLTexture", "CreateGLTexture", "CreateGLTexture", "CreateGLTexture",
       "CreateGLTexture", "CreateGLTexture", "CreateGLTexture",
       "BindGLTextures", "DefineObjectMaterials", "SetupSceneLights",
       "LoadMesh", "LoadMesh", "LoadMesh", "LoadMesh", "LoadMesh", "LoadMesh",
       "LoadMesh" >>
PrimitiveKinds == {"Plane", "Sphere", "Torus", "TaperedCylinder", "Box", "Cylinder",
                   "Prism"}
Prepared == pc \in {"ready", "RenderScene"}

\* C7: PrepareScene runs all texture loads, then BindGLTextures (once, after
\* the last load), then the material definitions, then the light
\* configuration, then the mesh loads, and loads each of the seven primitive
\* kinds exactly once.
C7_PrepareOrder ==
    /\ Len(prepLog) <= 21
    /\ PrepCallNames = SubSeq(PrepCallsInOrder, 1, Len(prepLog))
    /\ \A k \in DOMAIN meshLoads : k \in PrimitiveKinds /\ meshLoads[k] = 1
    /\ bindAllRan <=> Len(prepLog) >= 12
    /\ Len(m_objectMaterials) = (IF Len(prepLog) >= 13 THEN 4 ELSE 0)
    /\ uniforms["bUseLighting"] <=> Len(prepLog) >= 14
    /\ Prepared =>
          /\ PrepCallNames = PrepCallsInOrder
          /\ DOMAIN meshLoads = PrimitiveKinds

\* PrepareScene has returned and no frame has been rendered yet
C7_Witness ==
    /\ pc = "ready"
    /\ frame = 0
    /\ Len(prepLog) = 21
    /\ prepLog[12].call = "BindGLTextures"
    /\ prepLog[21].arg = "Prism"

LoadSucceeded(e) == e.call = "CreateGLTexture" /\ e.ret = TRUE
LoadFailed(e) == e.call = "CreateGLTexture" /\ e.ret = FALSE
RegisteredTags == [i \in 1 .. m_loadedTextures |-> m_textureIDs[i - 1].tag]
TagsOf(log) == [i \in 1 .. Len(log) |-> log[i].arg]

\* C8: a failed texture load returns false and leaves the registry and the
\* load counter as they were; the later loads, BindGLTextures, the material
\* definitions, the light configuration and the mesh loads still run; at the
\* end the registry holds the successfully loaded textures in load order and
\* the tag of every failed load resolves to -1.
C8_FailedLoadDoesNotAbort ==
    /\ [][ (lastCall'.op = "CreateGLTexture" /\ lastCall'.ret = FALSE) =>
              UNCHANGED texVars ]_vars
    /\ [](Prepared =>
            /\ Len(prepLog) = 21
            /\ TagsOf(SubSeq(prepLog, 1, 11)) = [i \in 1..11 |-> SceneTextures[i].tag]
            /\ RegisteredTags = TagsOf(SelectSeq(prepLog, LoadSucceeded))
            /\ \A i \in 1 .. 11 :
                  LoadFailed(prepLog[i]) =>
                      /\ FindTextureSlot(prepLog[i].arg) = -1
                      /\ FindTextureID(prepLog[i].arg) = -1
            /\ bindAllRan
            /\ Len(m_objectMaterials) = 4
            /\ uniforms["bUseLighting"]
            /\ DOMAIN meshLoads = PrimitiveKinds)

\* PrepareScene has returned after two loads failed, the first load among
\* them: one did not decode, the other had an unsupported channel count
C8_Witness ==
    /\ pc = "ready"
    /\ m_loadedTextures = 9
    /\ Len(glTextures) = 10
    /\ prepLog[1].ret = FALSE
    /\ stbiLive = 1
    /\ FindTextureSlot("floor") = -1
    /\ \A k \in PrimitiveKinds : k \in DOMAIN meshLoads

BoundAsRegistered == \A i \in TextureSlots : glBound[i] = m_textureIDs[i].ID

\* C11: BindGLTextures binds unit i to the handle of registry entry i for
\* every i below the load counter and leaves every unit at or above the load
\* counter as it was; from the return of PrepareScene on, through every
\* RenderScene call, unit i is bound to the handle of entry i.
C11_BindingEqualsRegistry ==
    /\ [][ lastCall'.op = "BindGLTextures" =>
              /\ \A i \in 0 .. (m_loadedTextures - 1) : glBound'[i] = m_textureIDs[i].ID
              /\ \A u \in Units : u >= m_loadedTextures => glBound'[u] = glBound[u]
              /\ UNCHANGED texVars ]_vars
    /\ [](Prepared => (bindAllRan /\ BoundAsRegistered))
    /\ [][ Prepared => UNCHANGED << texVars, glBound >> ]_vars

\* two frames have been rendered after a preparation in which the first load
\* failed on its channel count (which left its texture bound to unit 0) and
\* nine loads succeeded; units 0..8 hold the registry's handles, unit 9 none
C11_Witness ==
    /\ pc = "ready"
    /\ frame = 2
    /\ m_loadedTextures = 9
    /\ prepLog[1].ret = FALSE
    /\ Len(glTextures) >= 10
    /\ glBound[0] = m_textureIDs[0].ID
    /\ glBound[8] = m_textureIDs[8].ID
    /\ glBound[9] = 0

\* C12: after any sequence of CreateGLTexture calls the load counter is at
\* most 16 and no registry entry has been written at index 16 or above.
C12_RegistryWithinCapacity ==
    /\ m_loadedTextures <= TexCapacity
    /\ DOMAIN m_textureIDs \subseteq Units

\* the GL texture names that are allocated: no call of the source deletes one
AllocatedHandles == 1 .. Len(glTextures)
RegisteredHandles == { m_textureIDs[i].ID : i \in TextureSlots }
\* the names a successful CreateGLTexture allocated: it alone builds mipmaps
LoadedHandles == { h \in AllocatedHandles : glTextures[h].mipmaps }

\* C13: a DestroyGLTextures call releases the handle of every registry entry
\* and allocates no handle, and when the object has been destroyed no handle
\* that a successful CreateGLTexture allocated is still allocated.
C13_TeardownReleasesHandles ==
    /\ [][ lastCall'.op = "DestroyGLTextures" =>
              /\ RegisteredHandles \cap AllocatedHandles' = {}
              /\ AllocatedHandles' \subseteq AllocatedHandles ]_vars
    /\ [](pc = "destroyed" => LoadedHandles = {})

DirectionalLightUniforms ==
    {"directionalLight.direction", "directionalLight.ambient",
     "directionalLight.diffuse", "directionalLight.specular", "directionalLight.bActive"}
FirstPointLightUniforms ==
    {"pointLights[0].position", "pointLights[0].ambient", "pointLights[0].diffuse",
     "pointLights[0].specular", "pointLights[0].bActive"}
SpotLightUniforms ==
    {"spotLight.position", "spotLight.direction", "spotLight.ambient",
     "spotLight.diffuse", "spotLight.specular", "spotLight.constant",
     "spotLight.linear", "spotLight.quadratic", "spotLight.cutOff",
     "spotLight.outerCutOff", "spotLight.bActive"}
ReservedPointLightUniforms ==
    {"pointLights[1].position", "pointLights[1].ambient", "pointLights[1].diffuse",
     "pointLights[1].specular", "pointLights[1].bActive",
     "pointLights[2].position", "pointLights[2].ambient", "pointLights[2].diffuse",
     "pointLights[2].specular", "pointLights[2].bActive",
     "pointLights[3].position", "pointLights[3].ambient", "pointLights[3].diffuse",
     "pointLights[3].specular", "pointLights[3].bActive"}
ActivePointLights ==
    { n \in {"pointLights[0].bActive", "pointLights[1].bActive",
             "pointLights[2].bActive", "pointLights[3].bActive"} : uniforms[n] }
LightsConfigured == Len(prepLog) >= 14

\* C14: SetupSceneLights switches lighting on and configures the directional
\* light, pointLights[0] and the spot light (attenuation 1.0 / 0.30 / 0.01,
\* inner cutoff narrower than the outer one), all three active, and changes
\* no other uniform; the uniforms of pointLights[1], [2] and [3] are never
\* written, before or after: exactly one point light is active from then on.
C14_LightConfiguration ==
    /\ [][ lastCall'.op = "SetupSceneLights" =>
              /\ uniforms'["bUseLighting"] = TRUE
              /\ uniforms'["directionalLight.bActive"] = TRUE
              /\ uniforms'["directionalLight.direction"] = <<0, -1000, 1000>>
              /\ uniforms'["pointLights[0].bActive"] = TRUE
              /\ uniforms'["pointLights[0].position"] = <<-4000, 8000, 0>>
              /\ uniforms'["spotLight.bActive"] = TRUE
              /\ uniforms'["spotLight.constant"] = 1000
              /\ uniforms'["spotLight.linear"] = 300
              /\ uniforms'["spotLight.quadratic"] = 10
              /\ uniforms'["spotLight.cutOff"] > uniforms'["spotLight.outerCutOff"]
              /\ uniforms'["spotLight.outerCutOff"] > 0
              /\ uniforms'["spotLight.cutOff"] < 1000
              /\ \A n \in UniformNames \ (DirectionalLightUniforms
                                           \cup FirstPointLightUniforms
                                           \cup SpotLightUniforms
                                           \cup {"bUseLighting"}) :
                    uniforms'[n] = uniforms[n] ]_vars
    /\ [](\A n \in ReservedPointLightUniforms : uniforms[n] = InitialUniforms[n])
    /\ [](LightsConfigured =>
             /\ ActivePointLights = {"pointLights[0].bActive"}
             /\ uniforms["bUseLighting"]
             /\ uniforms["directionalLight.bActive"]
             /\ uniforms["spotLight.bActive"])

\* the lights were configured and two frames have been rendered since; only
\* the first point light is on
C14_Witness ==
    /\ pc = "ready"
    /\ frame = 2
    /\ prepLog[14].call = "SetupSceneLights"
    /\ uniforms["pointLights[0].bActive"]
    /\ ~uniforms["pointLights[1].bActive"]
    /\ uniforms["pointLights[3].position"] = <<0, 0, 0>>
    /\ uniforms["spotLight.quadratic"] = 10

\* C15: FindMaterial returns false exactly when the material registry is
\* empty, so it returns true for every tag, matching or not, once an entry
\* exists; when no entry carries the tag the output parameter comes back as
\* the caller passed it.
C15_FindMaterialResult ==
    /\ \A tag \in MaterialTags, out \in IndeterminateMaterials :
          /\ FindMaterial(tag, out).ret = (Len(m_objectMaterials) # 0)
          /\ ~MaterialTagPresent(tag) => FindMaterial(tag, out).material = out
    /\ lastCall.op = "FindMaterial" =>
          /\ lastCall.ret.ret = (Len(m_objectMaterials) # 0)
          /\ ~MaterialTagPresent(lastCall.arg) =>
                lastCall.ret.material \in IndeterminateMaterials

\* FindMaterial("nonexistent", out) has just returned true on a registry of
\* two materials, with out as it was passed in
C15_Witness ==
    /\ lastCall.op = "FindMaterial"
    /\ lastCall.arg = NoSuchTag
    /\ Len(m_objectMaterials) = 2
    /\ lastCall.ret.ret = TRUE
    /\ lastCall.ret.material.diffuseColor = <<-7, 13, 999>>

\* the uniforms each call may write
OwnUniforms(op) ==
    CASE op = "SetTransformations" -> {"model"}
      [] op = "SetTextureUVScale" -> {"UVscale"}
      [] op = "SetShaderMaterial" -> {"material.diffuseColor", "material.specularColor",
                                      "material.shininess"}
      [] op = "SetShaderColor" -> {"bUseTexture", "objectColor"}
      [] op = "SetShaderTexture" -> {"bUseTexture", "objectTexture"}
      [] op = "Draw" -> {}

\* uniforms "after" with the uniforms that call op may write put back to
\* their values in "before": equal to "before" exactly when op wrote nothing else
WithOwnRestored(op, after, before) ==
    CASE op = "SetTransformations" -> [after EXCEPT !["model"] = before["model"]]
      [] op = "SetTextureUVScale" -> [after EXCEPT !["UVscale"] = before["UVscale"]]
      [] op = "SetShaderMaterial" ->
           [after EXCEPT !["material.diffuseColor"] = before["material.diffuseColor"],
                         !["material.specularColor"] = before["material.specularColor"],
                         !["material.shininess"] = before["material.shininess"]]
      [] op = "SetShaderColor" ->
           [after EXCEPT !["bUseTexture"] = before["bUseTexture"],
                         !["objectColor"] = before["objectColor"]]
      [] op = "SetShaderTexture" ->
           [after EXCEPT !["bUseTexture"] = before["bUseTexture"],
                         !["objectTexture"] = before["objectTexture"]]
      [] op = "Draw" -> after

\* the calls of one frame, in order
FrameCalls ==
    RenderFloorCalls \o RenderWallCalls \o RenderBookcaseCalls \o RenderWindowCalls
    \o RenderVaseCalls \o RenderBookCalls \o RenderDeskCalls \o RenderCatCalls
FrameCallSet == { FrameCalls[p] : p \in 1 .. Len(FrameCalls) }

\* the position of the last call before position p that may write uniform n
\* (0: there is none)
RECURSIVE LastWriterBefore(_, _)
LastWriterBefore(n, p) ==
    IF p <= 1 THEN 0
    ELSE IF n \in OwnUniforms(FrameCalls[p - 1].op) THEN p - 1
    ELSE LastWriterBefore(n, p - 1)

DrawPositions == { p \in 1 .. Len(FrameCalls) : FrameCalls[p].op = "Draw" }
DrawPosition(k) ==
    CHOOSE p \in DrawPositions : Cardinality({q \in DrawPositions : q <= p}) = k

\* for the k-th draw call of a frame and each shading uniform, the position of
\* the setter call that wrote it last
LastWriters ==
    [k \in 1 .. Cardinality(DrawPositions) |->
        [n \in ShadingUniforms |-> LastWriterBefore(n, DrawPosition(k))]]
FrameLastWriter ==
    [n \in ShadingUniforms |-> LastWriterBefore(n, Len(FrameCalls) + 1)]

\* the values setter call c gives uniform n (more than one only for a
\* material tag that is not defined)
ValuesWritten(c, n) ==
    CASE c.op = "SetTransformations" -> {c.modelView}
      [] c.op = "SetTextureUVScale" -> {<<c.u, c.v>>}
      [] c.op = "SetShaderColor" -> {IF n = "bUseTexture" THEN FALSE ELSE c.rgba}
      [] c.op = "SetShaderTexture" ->
           {IF n = "bUseTexture" THEN TRUE
            ELSE IF TextureTagPresent(c.tag) THEN FirstTextureSlot(c.tag) ELSE -1}
      [] c.op = "SetShaderMaterial" ->
           LET from == IF MaterialTagPresent(c.tag) THEN {FirstMaterial(c.tag)}
                       ELSE IndeterminateMaterials
           IN  { CASE n = "material.diffuseColor" -> m.diffuseColor
                   [] n = "material.specularColor" -> m.specularColor
                   [] n = "material.shininess" -> m.shininess : m \in from }

\* the values uniform n may hold at the k-th draw call of the current frame
ExpectedAtDraw(k, n) ==
    IF LastWriters[k][n] # 0 THEN ValuesWritten(FrameCalls[LastWriters[k][n]], n)
    ELSE IF frame >= 2 /\ FrameLastWriter[n] # 0
         THEN ValuesWritten(FrameCalls[FrameLastWriter[n]], n)
         ELSE {InitialUniforms[n]}

\* C16: every call of an object routine leaves all uniforms but its own as
\* they are (SetTransformations: model; SetTextureUVScale: UVscale;
\* SetShaderMaterial: material.*; SetShaderColor: bUseTexture, objectColor;
\* SetShaderTexture: bUseTexture, objectTexture; a draw call: none), and at
\* every draw call each shading uniform holds what the most recent setter
\* call for it wrote, whether that call is in the same step, an earlier step,
\* an earlier routine or the frame before.
C16_ShadingPersists ==
    /\ \A c \in FrameCallSet :
          \A local \in MaterialLocals(<< c >>) :
             LET probe == [uniforms |-> uniforms, draws |-> << >>,
                           transforms |-> 0, selections |-> 0]
                 after == CallEffect("probe", probe, c, local).uniforms
             IN  WithOwnRestored(c.op, after, uniforms) = uniforms
    /\ \A k \in 1 .. Len(drawLog) :
          \A n \in ShadingUniforms : drawLog[k].uniforms[n] \in ExpectedAtDraw(k, n)

\* the first frame is complete; the last draw call of RenderCat, which selects
\* a colour and no material, was shaded with the material RenderDesk set, and
\* the floor was drawn with the object colour that nothing had written yet
C16_Witness ==
    /\ FrameDone
    /\ frame = 1
    /\ drawLog[36].routine = "RenderCat"
    /\ drawLog[24].routine = "RenderDesk"
    /\ FrameCalls[LastWriters[36]["material.shininess"]].op = "SetShaderMaterial"
    /\ LastWriters[36]["material.shininess"] < DrawPosition(24)
    /\ drawLog[36].uniforms["material.shininess"] = drawLog[24].uniforms["material.shininess"]
    /\ drawLog[36].uniforms["bUseTexture"] = FALSE
    /\ LastWriters[1]["objectColor"] = 0
    /\ drawLog[1].uniforms["objectColor"] = <<0, 0, 0, 0>>

RoutineCalls ==
    { RenderFloorCalls, RenderWallCalls, RenderBookcaseCalls, RenderWindowCalls,
      RenderVaseCalls, RenderBookCalls, RenderDeskCalls, RenderCatCalls }

\* C17: in every object routine each step is transform, shading, draw: every
\* draw call comes after exactly one SetTransformations call and at least one
\* SetShaderColor or SetShaderTexture call made since the routine's previous
\* draw call, and no routine ends on a SetTransformations call that no draw
\* call follows.
C17_StepShape ==
    /\ \A k \in 1 .. Len(drawLog) :
          /\ drawLog[k].transforms = 1
          /\ drawLog[k].selections >= 1
    /\ \A calls \in RoutineCalls : calls[Len(calls)].op = "Draw"

\* C18: every draw call of RenderScene is for a primitive kind that
\* PrepareScene loaded before, and the first draw call of a frame, hence every
\* draw call, comes after a SetTransformations call and a shading selection
\* of that frame.
C18_DrawsAreLoaded ==
    /\ Len(drawLog) > 0 => Prepared
    /\ \A k \in 1 .. Len(drawLog) :
          /\ drawLog[k].kind \in DOMAIN meshLoads
          /\ meshLoads[drawLog[k].kind] >= 1
    /\ Len(drawLog) > 0 =>
          /\ drawLog[1].transforms >= 1
          /\ drawLog[1].selections >= 1
          /\ drawLog[1].uniforms["model"] # ZeroMat4

\* the second frame is complete: all six kinds that are drawn (the torus is
\* loaded and never drawn) were loaded once by PrepareScene
C18_Witness ==
    /\ FrameDone
    /\ frame = 2
    /\ Len(drawLog) = 36
    /\ { drawLog[k].kind : k \in 1 .. Len(drawLog) } = PrimitiveKinds \ {"Torus"}
    /\ drawLog[29].kind = "Prism"
    /\ meshLoads["Prism"] = 1
    /\ prepLog[21].arg = "Prism"

AllLoadsSucceeded == Prepared /\ m_loadedTextures = Len(SceneTextures)

CallsOfRoutine(routine) ==
    CASE routine = "RenderFloor" -> RenderFloorCalls
      [] routine = "RenderWall" -> RenderWallCalls
      [] routine = "RenderBookcase" -> RenderBookcaseCalls
      [] routine = "RenderWindow" -> RenderWindowCalls
      [] routine = "RenderVase" -> RenderVaseCalls
      [] routine = "RenderBook" -> RenderBookCalls
      [] routine = "RenderDesk" -> RenderDeskCalls
      [] routine = "RenderCat" -> RenderCatCalls

\* the tags the routines that ran in this frame passed to SetShaderTexture
TextureTagsPassed ==
    { c.tag : c \in { call \in FrameCallSet :
                         /\ call.op = "SetShaderTexture"
                         /\ \E r \in 1 .. Len(routineLog) :
                               \E p \in 1 .. Len(CallsOfRoutine(routineLog[r])) :
                                   CallsOfRoutine(routineLog[r])[p] = call } }

\* C19: when all 11 loads of LoadSceneTextures succeeded, every tag an object
\* routine passes to SetShaderTexture is registered, and every draw call made
\* with bUseTexture true has an objectTexture in 0..10, never -1.
C19_TexturedDrawsResolve ==
    AllLoadsSucceeded =>
        /\ \A tag \in TextureTagsPassed : TextureTagPresent(tag)
        /\ \A k \in 1 .. Len(drawLog) :
              drawLog[k].uniforms["bUseTexture"] =>
                  drawLog[k].uniforms["objectTexture"] \in 0 .. 10

MaterialsDefined == Len(prepLog) >= 13

\* C20: DefineObjectMaterials appends four presets tagged "clay", "wood",
\* "glass" and "cloth" in this order, each with the diffuse colour, specular
\* colour and shininess assigned for it; FindMaterial matches an entry for
\* each of the four tags, and the tags are pairwise distinct and non-empty.
C20_FourPresets ==
    MaterialsDefined =>
        /\ m_objectMaterials =
              << Material("clay", <<400, 400, 500>>, <<200, 200, 400>>, 500),
                 Material("wood", <<200, 200, 300>>, <<0, 0, 0>>, 100),
                 Material("glass", <<200, 200, 200>>, <<1000, 1000, 1000>>, 95000),
                 Material("cloth", <<200, 200, 200>>, <<200, 200, 400>>, 500) >>
        /\ \A tag \in {"clay", "wood", "glass", "cloth"} : MaterialTagPresent(tag)
        /\ \A i \in MaterialIndexes :
              /\ m_objectMaterials[i].tag # ""
              /\ \A j \in MaterialIndexes :
                    i # j => m_objectMaterials[i].tag # m_objectMaterials[j].tag

\* C21: on every return path of CreateGLTexture the decoded image has been
\* freed and GL_TEXTURE_2D of the active unit is bound to 0; a call that
\* returns true has recorded the handle it generated in the registry, and a
\* call that returns false leaves no handle allocated that was not allocated
\* before, also when the image decodes to a channel count other than 3 or 4.
C21_LoadReleasesOnEveryPath ==
    [][ lastCall'.op = "CreateGLTexture" =>
           /\ stbiLive' = stbiLive
           /\ glBound'[glActiveUnit'] = 0
           /\ lastCall'.ret = TRUE =>
                 \A h \in AllocatedHandles' \ AllocatedHandles :
                     \E i \in 0 .. (m_loadedTextures' - 1) : m_textureIDs'[i].ID = h
           /\ lastCall'.ret = FALSE => AllocatedHandles' = AllocatedHandles ]_vars

\* the position in FrameCalls of the first call of the k-th routine
RECURSIVE RoutineStartAt(_)
RoutineStartAt(k) ==
    IF k = 1 THEN 1
    ELSE RoutineStartAt(k - 1) + Len(CallsOfRoutine(RoutinesInOrder[k - 1]))
RoutineStarts == [k \in 1 .. 8 |-> RoutineStartAt(k)]
RoutineStart(routine) == RoutineStarts[RoutinePosition(routine)]

\* the shading uniforms that take effect at draw call d
EffectiveUniforms(d) ==
    {"bUseTexture", "material.diffuseColor", "material.specularColor",
     "material.shininess"}
    \cup (IF d.uniforms["bUseTexture"] THEN {"objectTexture", "UVscale"}
          ELSE {"objectColor"})

\* the draw calls of the current frame shaded with a uniform that no setter
\* call of their own routine wrote before them
DrawsShadedFromOutside ==
    { k \in 1 .. Len(drawLog) :
        \E n \in EffectiveUniforms(drawLog[k]) :
            LastWriters[k][n] < RoutineStart(drawLog[k].routine) }

\* C22: at every draw call each shading uniform that takes effect
\* (bUseTexture, material.*, objectTexture and UVscale when texturing,
\* objectColor when not) was last written by a setter call of the routine
\* that issues the draw call, so what a routine draws with does not depend on
\* the routine that ran before it or on the frame before.
C22_RoutinesSelfContained == DrawsShadedFromOutside = {}

====
